---- MODULE Spec2Model ----
(***************************************************************************)
(* Model of the double-entry ledger core of src/src/lib.rs: Entry,         *)
(* Transaction::new (the zero-sum validation) and the wasm-exported Engine *)
(* (new, add_transaction_val, get_transaction_count).                      *)
(*                                                                         *)
(* Entry.amount is an i64.  The model keeps two's-complement arithmetic    *)
(* but scales the word to AmountBits bits, so that the smallest and the    *)
(* largest amount and the sums that leave the range can be enumerated.     *)
(* An overflowing `+` in Rust panics when the crate is built with overflow *)
(* checks (the dev and test profiles) and wraps otherwise (the release     *)
(* profile); overflow_checks is the profile of the build under analysis.   *)
(***************************************************************************)
EXTENDS Integers, Sequences, FiniteSets, TLC

VARIABLES
    transactions,     \* Engine.transactions : Vec<Transaction>
    overflow_checks,  \* build profile: TRUE = overflow panics, FALSE = it wraps
    aborted,          \* a panic left add_transaction_val without a return value
    last,             \* the latest call at the wasm boundary and what it returned
    nSuccess,         \* history: commit calls that returned the success string
    nFailed           \* history: commit calls that returned another string

vars == <<transactions, overflow_checks, aborted, last, nSuccess, nFailed>>

----------------------------------------------------------------------------
(* Bounds of the exploration *)

AmountBits == 16      \* width of the scaled i64
MaxTx == 2            \* commits are explored while the ledger is shorter
MaxFailed == 2        \* ... and while fewer commits than this were rejected
MaxEntries == 3       \* longest entries vector of the exhaustive input space

I64Modulus == 2 ^ AmountBits
MinI64 == -(2 ^ (AmountBits - 1))
MaxI64 == 2 ^ (AmountBits - 1) - 1
I64 == MinI64..MaxI64

----------------------------------------------------------------------------
(* Option<String>: None is the empty sequence, Some(s) is <<s>> *)

None == <<>>

(* struct Entry { account_id, amount } *)
Entry(account_id, amount) == [account_id |-> account_id, amount |-> amount]

(* struct Transaction { id, description, timestamp, entries, category } *)
Transaction(id, description, timestamp, entries, category) ==
    [id |-> id, description |-> description, timestamp |-> timestamp,
     entries |-> entries, category |-> category]

----------------------------------------------------------------------------
(* format!("{}", n) for a signed integer: decimal digits, '-' when negative *)

Digit == <<"0", "1", "2", "3", "4", "5", "6", "7", "8", "9">>

RECURSIVE FormatNat(_)
FormatNat(n) ==
    IF n < 10 THEN Digit[n + 1]
    ELSE FormatNat(n \div 10) \o Digit[(n % 10) + 1]

FormatI64(n) == IF n < 0 THEN "-" \o FormatNat(-n) ELSE FormatNat(n)

----------------------------------------------------------------------------
(* i64 addition.  The mathematical sum, whether it fits, and its wrap. *)

Fits(n) == n \in I64

WrapI64(n) == ((n - MinI64) % I64Modulus) + MinI64

(* entries.iter().map(|e| e.amount).sum() : a left fold of `+` from 0.    *)
(* Result: the accumulator, and whether some `+` overflowed on the way.   *)
RECURSIVE SumFrom(_, _, _)
SumFrom(entries, i, acc) ==
    IF i > Len(entries) THEN acc
    ELSE LET exact == acc.value + entries[i].amount
         IN SumFrom(entries, i + 1,
                    [value |-> WrapI64(exact),
                     overflowed |-> acc.overflowed \/ ~Fits(exact)])

iter_sum(entries) == SumFrom(entries, 1, [value |-> 0, overflowed |-> FALSE])

(* The sum over the integers, for stating what the code should compute *)
RECURSIVE ExactSumFrom(_, _)
ExactSumFrom(entries, i) ==
    IF i > Len(entries) THEN 0
    ELSE entries[i].amount + ExactSumFrom(entries, i + 1)

ExactSum(entries) == ExactSumFrom(entries, 1)

----------------------------------------------------------------------------
(* Result<Transaction, String>, with the panic as a third outcome.        *)
(* tx is <<>> or <<the transaction>>; err is "" or the message.           *)

Ok(tx) == [tag |-> "Ok", tx |-> <<tx>>, err |-> ""]
Err(msg) == [tag |-> "Err", tx |-> <<>>, err |-> msg]
Panic == [tag |-> "Panic", tx |-> <<>>, err |-> ""]

UnbalancedMsg(balance) ==
    "Transaction unbalanced: Sum is " \o FormatI64(balance) \o ". Must be 0."

EmptyMsg == "Transaction cannot be empty."

(* Transaction::new without its second check *)
new_no_empty_check(id, description, timestamp, entries) ==
    LET balance == iter_sum(entries)
    IN IF balance.overflowed /\ overflow_checks THEN Panic
       ELSE IF balance.value # 0 THEN Err(UnbalancedMsg(balance.value))
       ELSE Ok(Transaction(id, description, timestamp, entries, None))

(* Transaction::new with the two checks folded into the first *)
new_empty_as_unbalanced(id, description, timestamp, entries) ==
    LET balance == iter_sum(entries)
    IN IF balance.overflowed /\ overflow_checks THEN Panic
       ELSE IF balance.value # 0 \/ Len(entries) = 0
       THEN Err(UnbalancedMsg(balance.value))
       ELSE Ok(Transaction(id, description, timestamp, entries, None))

(* Transaction::new *)
new(id, description, timestamp, entries) ==
    LET balance == iter_sum(entries)
    IN IF balance.overflowed /\ overflow_checks THEN Panic
       ELSE IF balance.value # 0 THEN Err(UnbalancedMsg(balance.value))
       ELSE IF Len(entries) = 0 THEN Err(EmptyMsg)
       ELSE Ok(Transaction(id, description, timestamp, entries, None))

----------------------------------------------------------------------------
(* JsValue, as far as serde_wasm_bindgen::from_value::<Vec<Entry>> looks   *)
(* at it: null, a string, a number, an array of values, or an object with  *)
(* named fields.                                                           *)

JsNull == [kind |-> "null"]
JsString(s) == [kind |-> "string", str |-> s]
JsNumber(n) == [kind |-> "number", num |-> n]
JsArray(items) == [kind |-> "array", items |-> items]
JsObject(fields) == [kind |-> "object", fields |-> fields]

(* What the host passes for a well-formed entry, and for a whole vector *)
JsEntry(account_id, amount) ==
    JsObject([account_id |-> JsString(account_id), amount |-> JsNumber(amount)])

JsEntries(entries) ==
    JsArray([i \in 1..Len(entries) |->
                JsEntry(entries[i].account_id, entries[i].amount)])

(* Deserialize for Entry: an object whose account_id is a string and whose *)
(* amount is an integer that fits an i64; other fields are ignored.        *)
IsEntry(v) ==
    /\ v.kind = "object"
    /\ "account_id" \in DOMAIN v.fields
    /\ v.fields.account_id.kind = "string"
    /\ "amount" \in DOMAIN v.fields
    /\ v.fields.amount.kind = "number"
    /\ Fits(v.fields.amount.num)

DecodeOk(entries) == [tag |-> "Ok", value |-> entries]
DecodeErr == [tag |-> "Err", value |-> <<>>]

(* serde_wasm_bindgen::from_value(js_entries) as Vec<Entry> *)
from_value(js_entries) ==
    IF js_entries.kind # "array" THEN DecodeErr
    ELSE IF \A i \in 1..Len(js_entries.items) : IsEntry(js_entries.items[i])
    THEN DecodeOk([i \in 1..Len(js_entries.items) |->
                      Entry(js_entries.items[i].fields.account_id.str,
                            js_entries.items[i].fields.amount.num)])
    ELSE DecodeErr

----------------------------------------------------------------------------
(* The strings add_transaction_val returns *)

InvalidFormatStr == "Error: Invalid entries format"
SuccessStr == "Success: Transaction Committed"
ErrorStr(e) == "Error: " \o e

(* What one call of add_transaction_val does to the ledger and returns.    *)
(* new_called: Transaction::new was reached; returned: the call returned.  *)
Outcome(ledger, new_called, returned, ret) ==
    [transactions |-> ledger, new_called |-> new_called,
     returned |-> returned, ret |-> ret]

(* The match with the Err arm pushing a transaction without entries *)
match_new_push_on_err(result, ledger) ==
    IF result.tag = "Ok"
    THEN Outcome(Append(ledger, result.tx[1]), TRUE, TRUE, SuccessStr)
    ELSE IF result.tag = "Err"
    THEN Outcome(Append(ledger, Transaction(0, "", 0, <<>>, None)), TRUE, TRUE,
                 ErrorStr(result.err))
    ELSE Outcome(ledger, TRUE, FALSE, "")

(* The match with insert(0, tx) in place of push(tx) *)
match_new_insert_front(result, ledger) ==
    IF result.tag = "Ok"
    THEN Outcome(<<result.tx[1]>> \o ledger, TRUE, TRUE, SuccessStr)
    ELSE IF result.tag = "Err"
    THEN Outcome(ledger, TRUE, TRUE, ErrorStr(result.err))
    ELSE Outcome(ledger, TRUE, FALSE, "")

(* match Transaction::new(..) { Ok(tx) => push, Err(e) => format } *)
match_new(result, ledger) ==
    IF result.tag = "Ok"
    THEN Outcome(Append(ledger, result.tx[1]), TRUE, TRUE, SuccessStr)
    ELSE IF result.tag = "Err"
    THEN Outcome(ledger, TRUE, TRUE, ErrorStr(result.err))
    ELSE Outcome(ledger, TRUE, FALSE, "")

(* The body with unwrap_or_default() in place of the early return *)
commit_default_on_decode_error(ledger, id, description, timestamp, js_entries) ==
    LET decoded == from_value(js_entries)
    IN match_new(new(id, description, timestamp, decoded.value), ledger)

(* The body of Engine::add_transaction_val on the ledger `ledger` *)
commit(ledger, id, description, timestamp, js_entries) ==
    LET decoded == from_value(js_entries)
    IN IF decoded.tag = "Err"
       THEN Outcome(ledger, FALSE, TRUE, InvalidFormatStr)
       ELSE match_new(new(id, description, timestamp, decoded.value), ledger)

----------------------------------------------------------------------------
(* The record of a call at the boundary *)

Call(op, id, description, timestamp, js_entries, new_called, returned, ret, count) ==
    [op |-> op, id |-> id, description |-> description, timestamp |-> timestamp,
     js_entries |-> js_entries, new_called |-> new_called,
     returned |-> returned, ret |-> ret, count |-> count]

(* Engine::new() *)
Init ==
    /\ transactions = <<>>
    /\ overflow_checks \in BOOLEAN
    /\ aborted = FALSE
    /\ last = Call("new", 0, "", 0, JsNull, FALSE, TRUE, "", 0)
    /\ nSuccess = 0
    /\ nFailed = 0

(* Engine::add_transaction_val(&mut self, id, description, timestamp, js_entries) *)
add_transaction_val(id, description, timestamp, js_entries) ==
    /\ ~aborted
    /\ \E out \in {commit(transactions, id, description, timestamp, js_entries)} :
          /\ transactions' = out.transactions
          /\ aborted' = ~out.returned
          /\ last' = Call("add_transaction_val", id, description, timestamp,
                          js_entries, out.new_called, out.returned, out.ret, 0)
          /\ nSuccess' = IF out.returned /\ out.ret = SuccessStr
                         THEN nSuccess + 1 ELSE nSuccess
          /\ nFailed' = IF out.returned /\ out.ret # SuccessStr
                        THEN nFailed + 1 ELSE nFailed
    /\ UNCHANGED overflow_checks

(* Engine::get_transaction_count(&self) *)
get_transaction_count ==
    /\ ~aborted
    /\ last' = Call("get_transaction_count", 0, "", 0, JsNull, FALSE, TRUE, "",
                    Len(transactions))
    /\ UNCHANGED <<transactions, overflow_checks, aborted, nSuccess, nFailed>>

----------------------------------------------------------------------------
(* The calls the host makes *)

Ids == {1, 2}
Descriptions == {"Sale"}
Timestamps == {1000, 1001}

(* Entry vectors of the spec's scenarios and of the crate's tests, and     *)
(* vectors at the edge of the i64 range                                    *)
Balanced2 == <<Entry("Cash", 100), Entry("Revenue", -100)>>
Unbalanced2 == <<Entry("Cash", 100), Entry("Revenue", -50)>>
Balanced3 == <<Entry("A", 200), Entry("B", -150), Entry("C", -50)>>
WrapsToMin == <<Entry("Cash", MaxI64), Entry("Revenue", 1)>>
WrapsToZero == <<Entry("Cash", MinI64), Entry("Revenue", MinI64)>>
OverflowsThenZero ==
    <<Entry("A", MaxI64), Entry("B", 1), Entry("C", MinI64)>>

(* Values from_value rejects *)
MissingAmount == JsArray(<<JsObject([account_id |-> JsString("Cash")])>>)
AmountAsString ==
    JsArray(<<JsObject([account_id |-> JsString("Cash"), amount |-> JsString("100")])>>)
AmountTooLarge == JsArray(<<JsEntry("Cash", MaxI64 + 1), JsEntry("Revenue", MinI64)>>)
NotAnArray == JsEntry("Cash", 0)

JsInputs ==
    <<JsEntries(Balanced2), JsEntries(Unbalanced2), JsEntries(<<>>),
      JsEntries(Balanced3), JsEntries(WrapsToMin), JsEntries(WrapsToZero),
      JsEntries(OverflowsThenZero),
      JsNull, JsString("[]"), NotAnArray, JsArray(<<JsNull>>),
      MissingAmount, AmountAsString, AmountTooLarge>>

Commit ==
    /\ Len(transactions) < MaxTx
    /\ nFailed < MaxFailed
    /\ \E id \in Ids, description \in Descriptions, timestamp \in Timestamps,
          i \in 1..Len(JsInputs) :
            add_transaction_val(id, description, timestamp, JsInputs[i])

Count == get_transaction_count

Next == Commit \/ Count

Spec == Init /\ [][Next]_vars

----------------------------------------------------------------------------
(* One call of add_transaction_val on a new Engine, for every well-formed  *)
(* entries vector up to MaxEntries over the amounts at the edges of i64:   *)
(* the input space of Transaction::new.                                    *)

Accounts == {"Cash", "Revenue"}
Amounts == {MinI64, -1, 0, 1, MaxI64}
Entries == {Entry(a, m) : a \in Accounts, m \in Amounts}
EntryVectors == UNION {[1..n -> Entries] : n \in 0..MaxEntries}

CommitOnNew ==
    /\ last.op = "new"
    /\ \E id \in Ids, description \in Descriptions, timestamp \in Timestamps,
          entries \in EntryVectors :
            add_transaction_val(id, description, timestamp, JsEntries(entries))

NextNew == CommitOnNew

SpecNew == Init /\ [][NextNew]_vars

----------------------------------------------------------------------------
(* Vocabulary of the properties *)

IsCommit(c) == c.op = "add_transaction_val"
IsCount(c) == c.op = "get_transaction_count"

(* This step is a call of add_transaction_val *)
CommitStep ==
    /\ IsCommit(last')
    /\ nSuccess' # nSuccess \/ nFailed' # nFailed \/ aborted' # aborted

(* The entries a call's js_entries decode to, when they decode *)
Decodes(c) == from_value(c.js_entries).tag = "Ok"
DecodedEntries(c) == from_value(c.js_entries).value

StartsWith(str, prefix) ==
    /\ Len(str) >= Len(prefix)
    /\ SubSeq(str, 1, Len(prefix)) = prefix

IsPrefix(s, t) == Len(s) <= Len(t) /\ SubSeq(t, 1, Len(s)) = s

UnbalancedStr(sum) ==
    "Error: Transaction unbalanced: Sum is " \o FormatI64(sum) \o ". Must be 0."

IsUnbalancedStr(str) ==
    /\ StartsWith(str, "Error: Transaction unbalanced: Sum is ")
    /\ Len(str) > Len("Error: Transaction unbalanced: Sum is . Must be 0.")
    /\ SubSeq(str, Len(str) - Len(". Must be 0.") + 1, Len(str)) = ". Must be 0."

----------------------------------------------------------------------------
(* C1: every Transaction stored in the ledger has a non-empty entries      *)
(* sequence whose amounts sum to exactly 0.                                *)
C1_StoredBalanced ==
    \A i \in 1..Len(transactions) :
        /\ Len(transactions[i].entries) >= 1
        /\ ExactSum(transactions[i].entries) = 0

(* C2: a new Engine has count 0; a commit that returns the success string  *)
(* raises the count by exactly 1, any other commit leaves it unchanged,    *)
(* the count never decreases, and get_transaction_count returns the number *)
(* N of successful commits whatever the number M of failed ones.           *)
C2_CountStep ==
    /\ Len(transactions') >= Len(transactions)
    /\ nSuccess' = nSuccess + 1 => Len(transactions') = Len(transactions) + 1
    /\ nSuccess' = nSuccess => Len(transactions') = Len(transactions)

C2_Count ==
    /\ Len(transactions) = 0
    /\ [][C2_CountStep]_vars
    /\ [](Len(transactions) = nSuccess)
    /\ [](IsCount(last) => last.count = nSuccess)

C2_Witness ==
    /\ IsCount(last)
    /\ last.count = 2
    /\ nSuccess = 2
    /\ nFailed >= 1

(* C3: a commit whose decoded entries are non-empty and sum to 0 returns   *)
(* the success string and appends exactly one Transaction with the given   *)
(* id, description, timestamp and entries and no category, in every        *)
(* ledger state and whatever ids and timestamps are already committed.     *)
C3_BalancedCommits ==
    [][(CommitStep /\ Decodes(last')
            /\ Len(DecodedEntries(last')) >= 1
            /\ ExactSum(DecodedEntries(last')) = 0)
        => /\ last'.returned
           /\ last'.ret = "Success: Transaction Committed"
           /\ transactions' =
                Append(transactions,
                       [id |-> last'.id, description |-> last'.description,
                        timestamp |-> last'.timestamp,
                        entries |-> DecodedEntries(last'), category |-> <<>>])]_vars

(* C4: a commit whose decoded entries are non-empty and sum to s # 0       *)
(* returns "Error: Transaction unbalanced: Sum is s. Must be 0." and       *)
(* leaves the ledger as it was.                                            *)
C4_UnbalancedRejected ==
    [][(CommitStep /\ Decodes(last')
            /\ Len(DecodedEntries(last')) >= 1
            /\ ExactSum(DecodedEntries(last')) # 0)
        => /\ last'.returned
           /\ last'.ret = UnbalancedStr(ExactSum(DecodedEntries(last')))
           /\ transactions' = transactions]_vars

(* C5: for the empty entries sequence, whatever the id, description,       *)
(* timestamp and ledger, Transaction::new fails with the empty error,      *)
(* commit returns "Error: Transaction cannot be empty." and the ledger is  *)
(* unchanged.                                                              *)
C5_EmptyRejected ==
    [][(CommitStep /\ Decodes(last') /\ Len(DecodedEntries(last')) = 0)
        => /\ new(last'.id, last'.description, last'.timestamp, <<>>)
                = [tag |-> "Err", tx |-> <<>>, err |-> "Transaction cannot be empty."]
           /\ last'.returned
           /\ last'.ret = "Error: Transaction cannot be empty."
           /\ transactions' = transactions]_vars

C5_Witness ==
    /\ IsCommit(last)
    /\ Decodes(last)
    /\ DecodedEntries(last) = <<>>
    /\ last.ret = "Error: Transaction cannot be empty."
    /\ last.id = 2
    /\ Len(transactions) = 1
    /\ nFailed = 2

(* C6: when js_entries does not decode to a vector of entries, commit      *)
(* returns "Error: Invalid entries format", Transaction::new is not        *)
(* reached, and the ledger is unchanged, in every ledger state and for     *)
(* every id, description and timestamp.                                    *)
C6_MalformedRejected ==
    [][(CommitStep /\ ~Decodes(last'))
        => /\ last'.returned
           /\ last'.ret = "Error: Invalid entries format"
           /\ ~last'.new_called
           /\ transactions' = transactions]_vars

C6_Witness ==
    /\ IsCommit(last)
    /\ ~Decodes(last)
    /\ last.js_entries.kind = "array"
    /\ last.ret = "Error: Invalid entries format"
    /\ Len(transactions) = 1
    /\ nFailed = 1

(* C7: the ledger is append-only and committed transactions never change:  *)
(* across every call the old sequence is a prefix of the new one, a        *)
(* successful commit puts the new transaction at the end, and              *)
(* get_transaction_count changes nothing.                                  *)
C7_AppendOnly ==
    [][/\ IsPrefix(transactions, transactions')
       /\ (CommitStep /\ last'.returned /\ last'.ret = "Success: Transaction Committed")
            => /\ Len(transactions') = Len(transactions) + 1
               /\ transactions'[Len(transactions')].id = last'.id
               /\ transactions'[Len(transactions')].entries = DecodedEntries(last')
       /\ IsCount(last') => transactions' = transactions]_vars

C7_Witness ==
    /\ IsCommit(last)
    /\ last.ret = "Success: Transaction Committed"
    /\ Len(transactions) = 2
    /\ transactions[1].id = 2
    /\ transactions[2].id = 1
    /\ transactions[1].entries # transactions[2].entries

(* C8: every commit call returns a string; the string is the success       *)
(* string exactly when the ledger grew by one; otherwise it begins with    *)
(* "Error: ", is one of the three error forms, and the ledger is unchanged *)
C8_AlwaysReturns ==
    [][CommitStep
        => /\ last'.returned
           /\ last'.ret = "Success: Transaction Committed"
                <=> Len(transactions') = Len(transactions) + 1
           /\ last'.ret # "Success: Transaction Committed"
                => /\ StartsWith(last'.ret, "Error: ")
                   /\ \/ last'.ret = "Error: Invalid entries format"
                      \/ last'.ret = "Error: Transaction cannot be empty."
                      \/ IsUnbalancedStr(last'.ret)
                   /\ transactions' = transactions]_vars

(* C9: the sum Transaction::new compares to zero is the exact sum of the   *)
(* amounts: no entries whose exact sum is non-zero are accepted, and the   *)
(* sum in the unbalanced error is the exact sum.                           *)
C9_ExactSum ==
    (IsCommit(last) /\ last.new_called /\ last.returned)
        => LET entries == DecodedEntries(last)
           IN /\ iter_sum(entries).value = ExactSum(entries)
              /\ ExactSum(entries) # 0
                    => last.ret = UnbalancedStr(ExactSum(entries))

----------------------------------------------------------------------------
(* Transaction::new with the emptiness check before the sum check *)
new_checks_reversed(id, description, timestamp, entries) ==
    IF Len(entries) = 0 THEN Err(EmptyMsg)
    ELSE LET balance == iter_sum(entries)
         IN IF balance.overflowed /\ overflow_checks THEN Panic
            ELSE IF balance.value # 0 THEN Err(UnbalancedMsg(balance.value))
            ELSE Ok(Transaction(id, description, timestamp, entries, None))

(* C10: the order of the two checks of Transaction::new is not observable: *)
(* with the emptiness check first the outcome of new is the same for every *)
(* entries sequence, and so are the string commit returns and the ledger   *)
(* it leaves.                                                              *)
C10_CheckOrder ==
    [][(CommitStep /\ Decodes(last'))
        => LET entries == DecodedEntries(last')
               reversed == new_checks_reversed(last'.id, last'.description,
                                               last'.timestamp, entries)
               alt == match_new(reversed, transactions)
           IN /\ new(last'.id, last'.description, last'.timestamp, entries)
                    = reversed
              /\ transactions' = alt.transactions
              /\ last'.returned = alt.returned
              /\ last'.ret = alt.ret]_vars

C10_Witness ==
    /\ IsCommit(last)
    /\ DecodedEntries(last) = <<>>
    /\ last.new_called
    /\ last.ret = "Error: Transaction cannot be empty."
    /\ overflow_checks

====
